---- MODULE Spec2Model ----
(***************************************************************************)
(* Advisory generation pipeline of the flight-delay dashboard:             *)
(*   - components/AIAdvisor.jsx : mount-time probe (checkAI) and the       *)
(*     generate() action (on-device Prompt API, else POST /api/ai-advice)  *)
(*   - pages/api/ai-advice.js   : handler (prompt, stub when no key,       *)
(*     cascade over endpoint versions x models, stubs on failure)          *)
(*   - pages/api/predict.js     : handler (spawns the Python predictor and *)
(*     answers from the child's 'error' / 'close' events)                  *)
(*   - pages/index.js           : Home (weather effects of the origin and  *)
(*     destination selections)                                             *)
(* JavaScript strings are TLA+ strings; template literals are \o.          *)
(***************************************************************************)
EXTENDS Naturals, Sequences, FiniteSets, TLC

VARIABLES
    \* environment, fixed for a page session / server process
    windowAi,      \* [present, createTextSession, canCreateTextSession] of window.ai
    env,           \* process.env: [GEMINI_API_KEY, GEMINI_MODEL]
    context,       \* JSON.stringify(buildContext(), null, 2) of the props
    \* React state of AIAdvisor
    advice, loading, language, provider, aiStatus,
    \* checkAI() of the mount effect
    probePc, probed,
    \* one generate() call: position, the values its closure captured
    pc, g, can,
    \* observations: readiness queries of the probe, and of the running / last
    \* generate() call its queries, sessions, prompts, boundary calls and results
    nCanQueries, nGenQueries, nSessions, nPrompts, nBoundary, localPrompt, localOut, sent, fetched,
    \* the boundary: request or response of fetch('/api/ai-advice') in flight
    net,
    \* one invocation of handler(req, res)
    srvPc, req, prompt, models, vi, mi, lastErrText, calls, settled, lastResp, res,
    \* one invocation of the /api/predict handler: the child process, the kill
    \* timer, the collected output, the exit code, the calls of res.json()
    py, killTimer, stdout, stderr, code, nData, nJson, predictRes,
    \* React state of Home, the weather fetches in flight, and per selection
    \* the most recently started fetch
    origin, destination, originWx, destWx, loadingOriginWx, loadingDestWx, wxError,
    wxFetches, wxLatest

envVars   == <<windowAi, env, context>>
uiVars    == <<advice, loading, language, provider, aiStatus>>
genVars   == <<pc, g, can, nGenQueries, nSessions, nPrompts, nBoundary, localPrompt, localOut,
               sent, fetched>>
srvVars   == <<srvPc, req, prompt, models, vi, mi, lastErrText, calls, settled, lastResp, res>>
probeVars == <<probePc, probed>>
advisorVars == <<envVars, uiVars, probeVars, genVars, nCanQueries, net, srvVars>>
predictVars == <<py, killTimer, stdout, stderr, code, nData, nJson, predictRes>>
homeVars    == <<origin, destination, originWx, destWx, loadingOriginWx, loadingDestWx, wxError,
                 wxFetches, wxLatest>>
vars      == <<advisorVars, predictVars, homeVars>>

(***************************************************************************)
(* Bound of the model                                                      *)
(***************************************************************************)
MaxErrBodies == 2      \* distinct bodies of a failed provider response
MaxData      == 2      \* 'data' events of the predictor's stdout and stderr
MaxInFlight  == 3      \* weather fetches of the page that have not settled

(***************************************************************************)
(* JavaScript values                                                       *)
(***************************************************************************)
JsUndefined == "<undefined>"           \* the value undefined / an absent field
JsNull      == "<null>"                \* the value null
Truthy(v)   == v # JsUndefined /\ v # JsNull /\ v # ""
OrElse(a, b) == IF Truthy(a) THEN a ELSE b          \* a || b
Default(v, d) == IF v = JsUndefined THEN d ELSE v   \* destructuring default
String(v)   == IF v = JsUndefined THEN "undefined" ELSE v

Modes      == {"advice", "translate", "rewrite"}
Languages  == {"en", "es"}
LaxJfk     == "{\"flight\":{\"origin\":\"LAX\",\"destination\":\"JFK\"}}"
Contexts   == {LaxJfk, "{}"}
LocalTexts == {"Pack an umbrella."}
GeminiTexts == {"Gemini says: leave early."}
ErrBodies  == {"err" \o ToString(i) : i \in 1..MaxErrBodies}
Statuses   == {400, 404, 500, 503}     \* statuses of a failed provider response
PreferredSettings == {JsUndefined, "", "gemini-1.5-flash", "gemini-1.5-flash-8b", "gemini-2.0-flash"}
ApiKeys    == {JsUndefined, "key"}

(***************************************************************************)
(* Constants of the source                                                 *)
(***************************************************************************)
OnDevice   == "on-device (Gemini Nano)"
UnableText == "Unable to generate advisory (both Built-in AI and fallback failed)."
StubNoKey    == "DEMO ADVISORY (no GEMINI_API_KEY set):\n- Allow extra time at the airport; ..."
StubFallback == "DEMO ADVISORY (Gemini endpoints unavailable):\n- Expect minor operational variability; ..."
StubError    == "DEMO ADVISORY (fallback on error):\n- Some disruptions possible; ..."
\* mutant of versions: the older endpoint version first
versionsV1First == <<"v1", "v1beta">>
versions   == <<"v1beta", "v1">>
DefaultModel == "gemini-1.5-flash"

(***************************************************************************)
(* Pure functions                                                          *)
(***************************************************************************)
\* Array.from(new Set(xs)): the first occurrence of each element, in order
FirstOccurrences(xs) == { i \in 1..Len(xs) : \A j \in 1..(i - 1) : xs[j] # xs[i] }

Dedupe(xs) ==
    [ k \in 1..Cardinality(FirstOccurrences(xs)) |->
        xs[CHOOSE i \in FirstOccurrences(xs) :
               Cardinality({ j \in FirstOccurrences(xs) : j <= i }) = k] ]

\* const preferred = process.env.GEMINI_MODEL || 'gemini-1.5-flash'
Preferred(e) == OrElse(e.GEMINI_MODEL, DefaultModel)

\* the array handed to new Set(...)
RawModels(preferred) ==
    << preferred,
       preferred \o "-latest",
       preferred \o "-002",
       "gemini-1.5-flash-8b",
       "gemini-1.5-flash-8b-latest",
       "gemini-1.5-flash",
       "gemini-1.5-flash-latest",
       "gemini-1.5-pro" >>

\* mutant of ModelList: the array is used without new Set(...)
ModelListNoSet(preferred) == RawModels(preferred)

ModelList(preferred) == Dedupe(RawModels(preferred))

\* provider: `gemini:${ver}:${model}`
ProviderTag(ver, model) == "gemini:" \o ver \o ":" \o model

\* lastErrText = `(${ver}/${model}) ${t}`
ErrText(ver, model, t) == "(" \o ver \o "/" \o model \o ") " \o t

\* the prompt of the handler
\* mutant of ServerPrompt: the rewrite instruction is sent without the advisory
ServerPromptBareRewrite(mode, lang, adv, ctx) ==
    IF mode = "translate"
    THEN "Translate the following advisory to " \o lang
         \o " using clear, friendly travel English localized to the target language.\n\n" \o adv
    ELSE IF mode = "rewrite"
    THEN "Rewrite the following advisory to be more concise while preserving all key recommendations. Limit to 120 words.\n\n"
    ELSE "You are a concise travel assistant integrated in a flight delay dashboard. ... Include What to do next with 2-3 steps.\n\nJSON Context:\n" \o ctx

ServerPrompt(mode, lang, adv, ctx) ==
    IF mode = "translate"
    THEN "Translate the following advisory to " \o lang
         \o " using clear, friendly travel English localized to the target language.\n\n" \o adv
    ELSE IF mode = "rewrite"
    THEN "Rewrite the following advisory to be more concise while preserving all key recommendations. Limit to 120 words.\n\n" \o adv
    ELSE "You are a concise travel assistant integrated in a flight delay dashboard. ... Include What to do next with 2-3 steps.\n\nJSON Context:\n" \o ctx

\* the prompt of the on-device path
ClientPrompt(mode, lang, adv, ctx) ==
    IF mode = "translate"
    THEN "Translate the following advisory to " \o lang
         \o " using clear, friendly travel English localized to the target language:\n\n" \o adv
    ELSE IF mode = "rewrite"
    THEN "Rewrite the following advisory to be more concise while preserving all key recommendations. Limit to 120 words.\n\n" \o adv
    ELSE "Create a traveler advisory for this flight context. Output plain text.\n\nJSON Context:\n" \o ctx

\* temperature: mode === 'translate' ? 0.2 : 0.4   (in tenths)
Temperature(mode) == IF mode = "translate" THEN 2 ELSE 4

\* supportsPromptAPI: window.ai && typeof window.ai.createTextSession === 'function'
supportsPromptAPI == windowAi.present /\ windowAi.createTextSession

NoCall     == [mode |-> "advice", language |-> "en", advice |-> ""]
NoRequest  == [method |-> "none", mode |-> JsUndefined, language |-> JsUndefined,
               advice |-> JsUndefined, context |-> JsUndefined]
NoResponse == [kind |-> "none", status |-> 0, text |-> JsUndefined,
               provider |-> JsUndefined, errorInfo |-> JsUndefined]
NoProviderResponse == [kind |-> "none", status |-> 0, body |-> JsUndefined]
NoPredictResponse == [status |-> 0, error |-> JsUndefined, provider |-> JsUndefined]
NoFetch    == [iata |-> "", state |-> "none", weather |-> JsNull]

WindowAis ==
    { [present |-> FALSE, createTextSession |-> FALSE, canCreateTextSession |-> FALSE],
      [present |-> TRUE,  createTextSession |-> TRUE,  canCreateTextSession |-> TRUE],
      [present |-> TRUE,  createTextSession |-> FALSE, canCreateTextSession |-> TRUE],
      [present |-> TRUE,  createTextSession |-> TRUE,  canCreateTextSession |-> FALSE] }

\* process.env; GEMINI_MODEL is read only when a key is configured
Envs ==
    { e \in [GEMINI_API_KEY : ApiKeys, GEMINI_MODEL : PreferredSettings] :
        ~Truthy(e.GEMINI_API_KEY) => e.GEMINI_MODEL = JsUndefined }

\* the state of a freshly mounted AIAdvisor and of an idle route
InitState ==
    /\ advice = "" /\ loading = FALSE /\ language = "en" /\ provider = ""
    /\ aiStatus = JsNull
    /\ probePc = "mount" /\ probed = JsUndefined
    /\ pc = "idle" /\ g = NoCall /\ can = JsUndefined
    /\ nCanQueries = 0 /\ nGenQueries = 0 /\ nSessions = 0 /\ nPrompts = 0 /\ nBoundary = 0
    /\ localPrompt = "" /\ localOut = JsUndefined /\ sent = NoRequest /\ fetched = NoResponse
    /\ net = "none"
    /\ srvPc = "idle" /\ req = NoRequest /\ prompt = "" /\ models = <<>>
    /\ vi = 1 /\ mi = 1 /\ lastErrText = "" /\ calls = <<>> /\ settled = 0
    /\ lastResp = NoProviderResponse /\ res = NoResponse
    /\ py = "none" /\ killTimer = "none" /\ stdout = "" /\ stderr = "" /\ code = JsUndefined
    /\ nData = 0 /\ nJson = 0 /\ predictRes = NoPredictResponse
    /\ origin = "" /\ destination = "" /\ originWx = JsNull /\ destWx = JsNull
    /\ loadingOriginWx = FALSE /\ loadingDestWx = FALSE /\ wxError = JsNull
    /\ wxFetches = <<>> /\ wxLatest = [origin |-> NoFetch, destination |-> NoFetch]

Init ==
    /\ windowAi \in WindowAis
    /\ env \in Envs
    /\ context = LaxJfk
    /\ InitState

(***************************************************************************)
(* AIAdvisor: the mount effect                                             *)
(***************************************************************************)
\* checkAI() up to its await
\* mutant of CheckAI: the `if (!window.ai)` guard is left out
CheckAINoGuard ==
    /\ probePc = "mount"
    /\ IF ~windowAi.canCreateTextSession
       THEN aiStatus' = "error" /\ probePc' = "done" /\ UNCHANGED nCanQueries
       ELSE aiStatus' = aiStatus /\ probePc' = "awaiting" /\ nCanQueries' = nCanQueries + 1
    /\ UNCHANGED probed
    /\ UNCHANGED <<envVars, predictVars, homeVars, advice, loading, language, provider, genVars, net, srvVars>>

CheckAI ==
    /\ probePc = "mount"
    /\ IF ~windowAi.present
       THEN aiStatus' = "unavailable" /\ probePc' = "done" /\ UNCHANGED nCanQueries
       ELSE IF ~windowAi.canCreateTextSession
       THEN aiStatus' = "error" /\ probePc' = "done" /\ UNCHANGED nCanQueries
       ELSE aiStatus' = aiStatus /\ probePc' = "awaiting" /\ nCanQueries' = nCanQueries + 1
    /\ UNCHANGED probed
    /\ UNCHANGED <<envVars, predictVars, homeVars, advice, loading, language, provider, genVars, net, srvVars>>

\* window.ai.canCreateTextSession() settles
CheckAIAnswer ==
    /\ probePc = "awaiting"
    /\ \E ans \in {"readily", "after-download", "no", "reject"} :
          /\ probed' = ans
          /\ aiStatus' = IF ans = "reject" THEN "error" ELSE ans
    /\ probePc' = "done"
    /\ UNCHANGED <<envVars, predictVars, homeVars, advice, loading, language, provider, genVars, nCanQueries, net, srvVars>>

\* the language <select>
SetLanguage ==
    /\ \E l \in Languages : l # language /\ language' = l
    /\ UNCHANGED <<envVars, predictVars, homeVars, advice, loading, provider, aiStatus, probeVars, genVars,
                   nCanQueries, net, srvVars>>

(***************************************************************************)
(* AIAdvisor: generate(mode)                                               *)
(***************************************************************************)
\* mutant of Disabled: the buttons do not look at the in-flight flag
DisabledIgnoresLoading(mode) == IF mode = "advice" THEN FALSE ELSE ~Truthy(advice)

\* mutant of Disabled: Translate and Rewrite only look at the in-flight flag
DisabledIgnoresAdvice(mode) == loading

\* disabled={loading} / disabled={loading || !advice}
Disabled(mode) == IF mode = "advice" THEN loading ELSE loading \/ ~Truthy(advice)

\* body: JSON.stringify({ mode, language, advice, context: ctx })
RequestBody(call) ==
    [method |-> "POST", mode |-> call.mode, language |-> call.language,
     advice |-> call.advice, context |-> context]

\* r.ok
Ok(status) == status >= 200 /\ status <= 299

\* fetch('/api/ai-advice', ...) is called
IssueFetch(call) ==
    /\ pc' = "awaitFetch"
    /\ nBoundary' = nBoundary + 1
    /\ sent' = RequestBody(call)
    /\ net' = "req"

\* mutant of Catch: the error is only logged
CatchOnlyLogs ==
    /\ advice' = advice
    /\ provider' = provider
    /\ loading' = FALSE
    /\ pc' = "idle"

\* mutant of Catch: setLoading(false) sits in the try block, not in finally
CatchKeepsLoading ==
    /\ advice' = UnableText
    /\ provider' = "error"
    /\ loading' = loading
    /\ pc' = "idle"

\* catch (err) { ... } finally { setLoading(false) }
Catch ==
    /\ advice' = UnableText
    /\ provider' = "error"
    /\ loading' = FALSE
    /\ pc' = "idle"

\* a button's onClick: generate(mode) runs up to its first await
\* mutant of Click: the fetch is started together with the readiness query
ClickRace ==
    /\ net = "none"
    /\ \E mode \in Modes :
         /\ ~Disabled(mode)
         /\ g' = [mode |-> mode, language |-> language, advice |-> advice]
         /\ loading' = TRUE
         /\ nSessions' = 0 /\ nPrompts' = 0 /\ localPrompt' = "" /\ localOut' = JsUndefined
         /\ fetched' = NoResponse /\ can' = JsUndefined
         /\ nBoundary' = 1 /\ sent' = RequestBody(g') /\ net' = "req"
         /\ IF supportsPromptAPI
            THEN /\ pc' = "canCreate"
                 /\ nGenQueries' = IF windowAi.canCreateTextSession THEN 1 ELSE 0
            ELSE /\ pc' = "awaitFetch"
                 /\ nGenQueries' = 0
    /\ UNCHANGED <<envVars, predictVars, homeVars, advice, language, provider, aiStatus, probeVars, nCanQueries, srvVars>>

Click ==
    /\ net = "none"
    /\ \E mode \in Modes :
         /\ ~Disabled(mode)
         /\ g' = [mode |-> mode, language |-> language, advice |-> advice]
         /\ loading' = TRUE
         /\ nSessions' = 0 /\ nPrompts' = 0 /\ localPrompt' = "" /\ localOut' = JsUndefined
         /\ fetched' = NoResponse /\ can' = JsUndefined
         /\ IF supportsPromptAPI
            THEN /\ pc' = "canCreate"
                 /\ nGenQueries' = IF windowAi.canCreateTextSession THEN 1 ELSE 0
                 /\ nBoundary' = 0 /\ sent' = NoRequest /\ net' = net
            ELSE /\ nBoundary' = 1 /\ sent' = RequestBody(g') /\ net' = "req"
                 /\ pc' = "awaitFetch"
                 /\ nGenQueries' = 0
    /\ UNCHANGED <<envVars, predictVars, homeVars, advice, language, provider, aiStatus, probeVars, nCanQueries, srvVars>>

\* the answers window.ai?.canCreateTextSession?.() can give
CanAnswers ==
    IF windowAi.canCreateTextSession
    THEN {"readily", "after-download", "no", "reject"}
    ELSE {JsUndefined}

\* can === 'readily' || can === 'after-download'
\* mutant of CanUseDevice: 'after-download' is not accepted
CanUseDeviceReadilyOnly(answer) == answer = "readily"

CanUseDevice(answer) == answer = "readily" \/ answer = "after-download"

\* const can = await window.ai?.canCreateTextSession?.() settles
CanCreateAnswer ==
    /\ pc = "canCreate"
    /\ \E answer \in CanAnswers :
         /\ can' = answer
         /\ IF answer = "reject"
            THEN Catch /\ UNCHANGED <<language, aiStatus, g, nSessions, nPrompts, nBoundary,
                                      localPrompt, localOut, sent, fetched, net>>
            ELSE IF CanUseDevice(answer)
            THEN /\ pc' = "createSession"
                 /\ nSessions' = nSessions + 1
                 /\ UNCHANGED <<uiVars, g, nPrompts, nBoundary, localPrompt, localOut, sent, fetched, net>>
            ELSE /\ IssueFetch(g)
                 /\ UNCHANGED <<uiVars, g, nSessions, nPrompts, localPrompt, localOut, fetched>>
    /\ UNCHANGED <<envVars, predictVars, homeVars, probeVars, nCanQueries, nGenQueries, srvVars>>

\* await window.ai.createTextSession({...}) settles
CreateSessionResult ==
    /\ pc = "createSession"
    /\ \E ok \in BOOLEAN :
         IF ok
         THEN /\ pc' = "prompt"
              /\ nPrompts' = nPrompts + 1
              /\ localPrompt' = ClientPrompt(g.mode, g.language, g.advice, context)
              /\ UNCHANGED <<uiVars, nBoundary, localOut, sent, fetched, net>>
         ELSE Catch /\ UNCHANGED <<language, aiStatus, nPrompts, nBoundary, localPrompt, localOut,
                                   sent, fetched, net>>
    /\ UNCHANGED <<envVars, predictVars, homeVars, probeVars, g, can, nSessions, nCanQueries, nGenQueries, srvVars>>

\* what session.prompt(prompt) can resolve to
LocalOutputs == LocalTexts \cup {"", JsUndefined}

\* mutant of StoreLocal: setProvider is left out
StoreLocalKeepsProvider(output) ==
    /\ advice' = String(OrElse(output, ""))
    /\ provider' = provider
    /\ loading' = FALSE
    /\ pc' = "idle"

\* setAdvice(String(output || '')); setProvider('on-device (Gemini Nano)'); return
StoreLocal(output) ==
    /\ advice' = String(OrElse(output, ""))
    /\ provider' = OnDevice
    /\ loading' = FALSE
    /\ pc' = "idle"

\* const output = await session.prompt(prompt) settles
PromptResult ==
    /\ pc = "prompt"
    /\ \/ \E output \in LocalOutputs :
            /\ localOut' = output
            /\ StoreLocal(output)
            /\ UNCHANGED <<language, aiStatus, nBoundary, sent, fetched, net>>
       \/ /\ localOut' = "reject"
          /\ Catch
          /\ UNCHANGED <<language, aiStatus, nBoundary, sent, fetched, net>>
    /\ UNCHANGED <<envVars, predictVars, homeVars, probeVars, g, can, nSessions, nPrompts, localPrompt, nCanQueries,
                   nGenQueries, srvVars>>

\* setAdvice(String(j.text || '')); setProvider(j.provider || 'server')
StoreRemote(j) ==
    /\ advice' = String(OrElse(j.text, ""))
    /\ provider' = OrElse(j.provider, "server")
    /\ loading' = FALSE
    /\ pc' = "idle"

\* the invocation of the handler that answered is over: its locals are gone
HandlerGone ==
    /\ srvPc' = "idle" /\ req' = NoRequest /\ prompt' = "" /\ models' = <<>>
    /\ vi' = 1 /\ mi' = 1 /\ lastErrText' = "" /\ calls' = <<>> /\ settled' = 0
    /\ lastResp' = NoProviderResponse /\ res' = NoResponse

\* the response of the route arrives: const j = await r.json(); if (!r.ok) throw
ClientReceive ==
    /\ pc = "awaitFetch" /\ net = "resp"
    /\ fetched' = res
    /\ net' = "none"
    /\ IF Ok(res.status) THEN StoreRemote(res) ELSE Catch
    /\ HandlerGone
    /\ UNCHANGED <<envVars, predictVars, homeVars, language, aiStatus, probeVars, g, can, nSessions, nPrompts, nBoundary,
                   localPrompt, localOut, sent, nCanQueries, nGenQueries>>

\* the boundary call fails: fetch rejects, or a non-success status comes back
BoundaryFailures ==
    { [kind |-> "reject", status |-> 0, text |-> JsUndefined, provider |-> JsUndefined,
       errorInfo |-> JsUndefined],
      [kind |-> "http", status |-> 502, text |-> JsUndefined, provider |-> JsUndefined,
       errorInfo |-> JsUndefined] }

FetchFails ==
    /\ pc = "awaitFetch" /\ net \in {"req", "resp"}
    /\ \E f \in BoundaryFailures : fetched' = f
    /\ net' = "none"
    /\ Catch
    /\ IF net = "resp" THEN HandlerGone ELSE UNCHANGED srvVars
    /\ UNCHANGED <<envVars, predictVars, homeVars, language, aiStatus, probeVars, g, can, nSessions, nPrompts, nBoundary,
                   localPrompt, localOut, sent, nCanQueries, nGenQueries>>

(***************************************************************************)
(* pages/api/ai-advice.js: handler(req, res)                               *)
(***************************************************************************)
\* res.status(status).json({ text, provider, errorInfo })
Json(status, text, prov, errorInfo) ==
    [kind |-> "http", status |-> status, text |-> text, provider |-> prov,
     errorInfo |-> errorInfo]

\* the catch block of the handler: stub instead of 500
\* mutant of CatchResponse: the catch block reports the failure as a 500
CatchResponse500 == Json(500, JsUndefined, JsUndefined, "Gemini API server error")

\* mutant of CatchResponse: a thrown error gets the exhausted-cascade answer
CatchResponseAsFallback == Json(200, StubFallback, "stub-fallback", "fetch failed")

CatchResponse == Json(200, StubError, "stub-error", JsUndefined)

\* mutant of NoKeyResponse: the stub of the exhausted cascade is returned
NoKeyResponseFallbackStub == Json(200, StubFallback, "stub-fallback", JsUndefined)

\* if (!apiKey) return the demo stub
NoKeyResponse == Json(200, StubNoKey, "stub", JsUndefined)

\* after the loops: the graceful stub
ExhaustedResponse(errText) == Json(200, StubFallback, "stub-fallback", errText)

\* mutant of SuccessResponse: the provider names the preferred model
SuccessResponsePreferredTag(ver, model, extracted) ==
    Json(200, OrElse(extracted, ""), ProviderTag(ver, models[1]), JsUndefined)

\* if (r.ok): text = data?.candidates?.[0]?.content?.parts?.[0]?.text || ''
SuccessResponse(ver, model, extracted) ==
    Json(200, OrElse(extracted, ""), ProviderTag(ver, model), JsUndefined)

\* mutant of IsServerError: 500 itself is treated as retryable
IsServerErrorAbove500(status) == status > 500

\* if (r.status >= 500) throw
IsServerError(status) == status >= 500

\* what one fetch of the provider can come back with
ProviderResponses ==
    { [kind |-> "ok", status |-> 200, body |-> t] : t \in GeminiTexts \cup {JsUndefined} }
    \cup { [kind |-> "badjson", status |-> 200, body |-> JsUndefined] }
    \cup { [kind |-> "reject", status |-> 0, body |-> JsUndefined] }
    \cup { [kind |-> "status", status |-> st, body |-> t] : st \in Statuses, t \in ErrBodies }

\* the handler answers: res.json(...) and return
Respond(r) ==
    /\ res' = r
    /\ net' = "resp"
    /\ srvPc' = "idle"

\* the handler runs from its entry to its first await (or to its return)
HandlerStart ==
    /\ srvPc = "idle" /\ net = "req"
    /\ req' = sent
    /\ lastResp' = NoProviderResponse
    /\ lastErrText' = "" /\ settled' = 0
    /\ vi' = 1 /\ mi' = 1
    /\ IF sent.method # "POST"
       THEN /\ Respond(Json(405, JsUndefined, JsUndefined, JsUndefined))
            /\ prompt' = "" /\ models' = <<>> /\ calls' = <<>>
       ELSE /\ prompt' = ServerPrompt(Default(sent.mode, "advice"), Default(sent.language, "en"),
                                      Default(sent.advice, ""), Default(sent.context, "{}"))
            /\ IF ~Truthy(env.GEMINI_API_KEY)
               THEN /\ Respond(NoKeyResponse)
                    /\ models' = <<>> /\ calls' = <<>>
               ELSE /\ models' = ModelList(Preferred(env))
                    /\ calls' = << <<versions[1], models'[1]>> >>
                    /\ srvPc' = "awaitProvider"
                    /\ net' = "none"
                    /\ res' = NoResponse
    /\ UNCHANGED <<envVars, predictVars, homeVars, uiVars, probeVars, genVars, nCanQueries>>

\* mutant of NextCandidate: the inner loop does not restart in the next version
NextCandidateKeepsModel ==
    /\ IF mi < Len(models)
       THEN vi' = vi /\ mi' = mi + 1
       ELSE vi' = vi + 1 /\ mi' = mi
    /\ calls' = Append(calls, <<versions[vi'], models[mi']>>)
    /\ UNCHANGED <<srvPc, net, res>>

\* mutant of NextCandidate: the inner loop starts over at the current model
NextCandidateRepeats ==
    /\ IF mi < Len(models)
       THEN vi' = vi /\ mi' = mi + 1
       ELSE vi' = vi + 1 /\ mi' = mi
    /\ calls' = Append(calls, <<versions[vi], models[mi]>>)
    /\ UNCHANGED <<srvPc, net, res>>

\* the loops advance to the next candidate and fetch it
NextCandidate ==
    /\ IF mi < Len(models)
       THEN vi' = vi /\ mi' = mi + 1
       ELSE vi' = vi + 1 /\ mi' = 1
    /\ calls' = Append(calls, <<versions[vi'], models[mi']>>)
    /\ UNCHANGED <<srvPc, net, res>>

\* mutant of LastCandidate: the cascade ends after the first version
LastCandidateOfVersion == mi = Len(models)

\* no candidate is left after (vi, mi)
LastCandidate == mi = Len(models) /\ vi = Len(versions)

\* the awaited fetch of versions[vi] / models[mi] settles, and the handler runs on
ProviderRespond ==
    /\ srvPc = "awaitProvider"
    /\ \E r \in ProviderResponses :
         /\ lastResp' = r
         /\ settled' = settled + 1
         /\ IF r.kind = "ok"
            THEN /\ Respond(SuccessResponse(versions[vi], models[mi], r.body))
                 /\ UNCHANGED <<vi, mi, lastErrText, calls>>
            ELSE IF r.kind \in {"badjson", "reject"}
            THEN /\ Respond(CatchResponse)
                 /\ UNCHANGED <<vi, mi, lastErrText, calls>>
            ELSE /\ lastErrText' = ErrText(versions[vi], models[mi], r.body)
                 /\ IF IsServerError(r.status)
                    THEN Respond(CatchResponse) /\ UNCHANGED <<vi, mi, calls>>
                    ELSE IF LastCandidate
                    THEN Respond(ExhaustedResponse(lastErrText')) /\ UNCHANGED <<vi, mi, calls>>
                    ELSE NextCandidate
    /\ UNCHANGED <<envVars, predictVars, homeVars, uiVars, probeVars, genVars, nCanQueries, req, prompt, models>>

\* The pipeline: generate() actions of one mounted AIAdvisor against the route.
\* generate() reads neither aiStatus nor anything the probe writes, and the
\* language only through the prompt text.
Next ==
    \/ Click
    \/ CanCreateAnswer
    \/ CreateSessionResult
    \/ PromptResult
    \/ HandlerStart
    \/ ProviderRespond
    \/ ClientReceive
    \/ FetchFails

Spec == Init /\ [][Next]_vars

(***************************************************************************)
(* The route on its own: any caller (the README's curl) sends a request    *)
(***************************************************************************)
\* a request without a body (req.body || {}), and bodies with and without each field
DirectRequests ==
    { [method |-> "GET", mode |-> JsUndefined, language |-> JsUndefined,
       advice |-> JsUndefined, context |-> JsUndefined] }
    \cup
    { [method |-> "POST", mode |-> m, language |-> l, advice |-> a, context |-> c] :
        m \in Modes \cup {JsUndefined, "summarize"},
        l \in {JsUndefined, "es"},
        a \in {JsUndefined, "", "Pack an umbrella."},
        c \in Contexts \cup {JsUndefined} }

DirectRequest ==
    /\ pc = "idle" /\ net = "none" /\ srvPc = "idle"
    /\ \E r \in DirectRequests : sent' = r
    /\ net' = "req"
    /\ UNCHANGED <<envVars, predictVars, homeVars, uiVars, probeVars, pc, g, can, nGenQueries, nSessions, nPrompts, nBoundary,
                   localPrompt, localOut, fetched, nCanQueries, srvVars>>

DirectReceive ==
    /\ pc = "idle" /\ net = "resp"
    /\ net' = "none"
    /\ sent' = NoRequest
    /\ HandlerGone
    /\ UNCHANGED <<envVars, predictVars, homeVars, uiVars, probeVars, pc, g, can, nGenQueries, nSessions, nPrompts, nBoundary,
                   localPrompt, localOut, fetched, nCanQueries>>

InitRoute == Init /\ ~windowAi.present

NextRoute ==
    \/ DirectRequest
    \/ HandlerStart
    \/ ProviderRespond
    \/ DirectReceive

SpecRoute == InitRoute /\ [][NextRoute]_vars

(***************************************************************************)
(* The pipeline and direct callers when no API key is configured: the      *)
(* handler returns before its loops, so no provider call is ever awaited.  *)
(***************************************************************************)
InitNoKey == Init /\ ~Truthy(env.GEMINI_API_KEY)

NextNoKey ==
    \/ Click
    \/ CanCreateAnswer
    \/ CreateSessionResult
    \/ PromptResult
    \/ HandlerStart
    \/ ClientReceive
    \/ FetchFails
    \/ DirectRequest
    \/ DirectReceive

SpecNoKey == InitNoKey /\ [][NextNoKey]_vars

(***************************************************************************)
(* Properties                                                              *)
(***************************************************************************)
\* a generate() call has run to its end (every exit path sets the provider)
Completed == pc = "idle" /\ provider # ""

\* the on-device attempt of the completed call failed: createTextSession threw,
\* session.prompt() threw, or the output was empty / undefined
SessionOpenFailed == nSessions >= 1 /\ nPrompts = 0
PromptThrew       == nPrompts >= 1 /\ localOut = "reject"
OutputEmpty       == nPrompts >= 1 /\ ~Truthy(localOut)
OnDeviceFailed    == SessionOpenFailed \/ PromptThrew \/ OutputEmpty

\* the completed call stored what its boundary call answered
SettledWithBoundaryResult ==
    /\ fetched.kind = "http" /\ Ok(fetched.status)
    /\ advice = String(OrElse(fetched.text, ""))
    /\ provider = OrElse(fetched.provider, "server")

\* C1: when the on-device attempt of generate() fails (session open throws,
\* prompt() throws, or the output is empty), generate() does not retry
\* on-device, issues exactly one boundary call and settles with its result.
C1_DegradesToRemote ==
    (Completed /\ OnDeviceFailed)
        => (nSessions = 1 /\ nPrompts <= 1 /\ nBoundary = 1 /\ SettledWithBoundaryResult)

\* C2: after any completed generate() the stored advisory text is non-empty.
C2_TextNonEmpty == Completed => Truthy(advice)

(***************************************************************************)
(* Properties of the cascade, stated on the handler's response             *)
(***************************************************************************)
\* the handler has answered and the answer is not yet picked up
Answered == net = "resp"

\* the candidate list as the claims describe it: endpoint versions outer
\* (v1beta before v1), the model list inner
ExpectedVersions == <<"v1beta", "v1">>
NumCandidates == Len(ExpectedVersions) * Len(models)
CandidateAt(i) ==
    << ExpectedVersions[((i - 1) \div Len(models)) + 1], models[((i - 1) % Len(models)) + 1] >>

\* the candidate of the provider call that settled last
LastCall == calls[Len(calls)]

\* the calls made so far are the first Len(calls) candidates, each once, in order
CallsInListOrder ==
    /\ Len(calls) <= NumCandidates
    /\ \A i \in 1..Len(calls) : calls[i] = CandidateAt(i)

ServerErrorSeen == lastResp.kind = "status" /\ lastResp.status >= 500
ClientErrorSeen == lastResp.kind = "status" /\ lastResp.status < 500

C4_ContinuesOnClientError ==
    /\ (srvPc = "awaitProvider" /\ lastResp.kind # "none")
         => /\ ClientErrorSeen
            /\ Len(calls) >= 2 /\ CallsInListOrder
            /\ lastErrText = "(" \o calls[Len(calls) - 1][1] \o "/"
                                 \o calls[Len(calls) - 1][2] \o ") " \o lastResp.body
    /\ (Answered /\ lastResp.kind = "ok" /\ Len(calls) = NumCandidates)
         => /\ \A i \in 1..NumCandidates : calls[i] = CandidateAt(i)
            /\ Ok(res.status)
            /\ res.provider = "gemini:" \o ExpectedVersions[Len(ExpectedVersions)] \o ":"
                                 \o models[Len(models)]

\* all 16 candidates of a custom preferred model failed but the last
C4_Witness ==
    /\ Answered /\ lastResp.kind = "ok"
    /\ Len(models) = 8 /\ Len(calls) = 16
    /\ res.provider = "gemini:v1:gemini-1.5-pro"

\* C5: candidates are called strictly in list order, v1beta before v1 and the
\* preferred model first within a version; the provider names the first
\* candidate whose call succeeded and nothing is called after it.
C5_ListOrderFirstSuccess ==
    (calls # <<>>)
        => /\ CallsInListOrder
           /\ calls[1] = <<"v1beta", OrElse(env.GEMINI_MODEL, "gemini-1.5-flash")>>
           /\ (Answered /\ lastResp.kind = "ok")
                => res.provider = "gemini:" \o LastCall[1] \o ":" \o LastCall[2]
           /\ (Answered /\ res.provider \notin {"stub-error", "stub-fallback"})
                => lastResp.kind = "ok"

\* the first success is a candidate of the second version
C5_Witness ==
    /\ Answered /\ lastResp.kind = "ok"
    /\ Len(calls) > Len(models) /\ LastCall[1] = "v1"
    /\ res.provider = "gemini:v1:" \o LastCall[2]

C8_NoDuplicateCandidates ==
    (models # <<>>)
        => /\ \A i, j \in 1..NumCandidates : CandidateAt(i) = CandidateAt(j) => i = j
           /\ \A i, j \in 1..Len(models) : models[i] = models[j] => i = j
           /\ models[1] = IF env.GEMINI_MODEL \in {JsUndefined, ""}
                          THEN "gemini-1.5-flash" ELSE env.GEMINI_MODEL

\* a preferred model that is a built-in fallback and whose -latest variant is one too
C8_Witness ==
    /\ env.GEMINI_MODEL = "gemini-1.5-flash-8b"
    /\ Len(models) = 6
    /\ srvPc = "awaitProvider"

(***************************************************************************)
(* Properties of the whole pipeline                                        *)
(***************************************************************************)
\* C6: with no API key a POST gets provider "stub" with a non-empty text for
\* every mode and body, without any provider call; end to end, with the
\* facility unavailable and mode advice, generate() stores that stub.
C6_StubWithoutKey ==
    /\ (Answered /\ req.method = "POST")
         => /\ res.status = 200 /\ res.provider = "stub"
            /\ Truthy(res.text) /\ res.text = StubNoKey
            /\ calls = <<>> /\ lastResp.kind = "none"
    /\ srvPc # "awaitProvider"
    /\ (Completed /\ ~windowAi.present)
         => /\ nSessions = 0 /\ nBoundary = 1
            /\ (fetched.kind = "http" /\ Ok(fetched.status))
                 => (provider = "stub" /\ advice = StubNoKey)
            /\ (fetched.kind = "http" /\ Ok(fetched.status)) \/ provider = "error"

C6_Witness ==
    /\ Completed /\ ~windowAi.present /\ g.mode = "advice"
    /\ sent.context = LaxJfk
    /\ provider = "stub" /\ advice = StubNoKey

StubTexts == [p \in {"stub", "stub-fallback", "stub-error"} |->
                 IF p = "stub" THEN StubNoKey
                 ELSE IF p = "stub-fallback" THEN StubFallback ELSE StubError]

\* C9: after a completed generate() the provider is non-empty and names the
\* tier that produced the stored text: the on-device tag only for the local
\* session's output, a candidate identifier only for the text that exactly
\* that candidate's call returned, a stub tag only for that stub, "error"
\* only for the final-fallback message.
C9_ProviderNamesTier ==
    /\ Completed =>
         /\ Truthy(provider)
         /\ provider = "on-device (Gemini Nano)"
              => /\ nPrompts = 1 /\ localOut # "reject" /\ nBoundary = 0
                 /\ advice = IF Truthy(localOut) THEN localOut ELSE ""
         /\ provider = "error" => advice = UnableText
         /\ provider \in DOMAIN StubTexts
              => (advice = StubTexts[provider] /\ nBoundary = 1 /\ fetched.provider = provider)
         /\ provider \notin (DOMAIN StubTexts \cup {"error", "on-device (Gemini Nano)"})
              => /\ nBoundary = 1 /\ fetched.kind = "http"
                 /\ provider = fetched.provider
                 /\ advice = IF Truthy(fetched.text) THEN fetched.text ELSE ""
    /\ (Answered /\ res.status = 200 /\ res.provider \notin DOMAIN StubTexts)
         => /\ lastResp.kind = "ok"
            /\ res.provider = "gemini:" \o LastCall[1] \o ":" \o LastCall[2]
            /\ res.text = IF Truthy(lastResp.body) THEN lastResp.body ELSE ""
    /\ (Answered /\ res.provider \in DOMAIN StubTexts)
         => (res.text = StubTexts[res.provider] /\ lastResp.kind # "ok")

C9_Witness ==
    /\ Completed
    /\ provider = "gemini:v1:gemini-1.5-pro"
    /\ advice \in GeminiTexts

\* C10 as stated: capability readily and a non-empty local output T give text
\* T, provider exactly "on-device" and no boundary call.
C10_OnDeviceExactTag ==
    (Completed /\ can = "readily" /\ localOut \in LocalTexts)
        => (advice = localOut /\ provider = "on-device" /\ nBoundary = 0)

\* C10 amended: the provider is the tag "on-device (Gemini Nano)".
C10_OnDeviceSuccess ==
    (Completed /\ can = "readily" /\ localOut \in LocalTexts)
        => /\ advice = localOut
           /\ provider = "on-device (Gemini Nano)"
           /\ nBoundary = 0 /\ sent = NoRequest /\ fetched = NoResponse
           /\ nSessions = 1 /\ nPrompts = 1

C10_Witness ==
    /\ Completed /\ can = "readily"
    /\ localOut = "Pack an umbrella." /\ advice = "Pack an umbrella."
    /\ g.mode = "translate"

(***************************************************************************)
(* The page: the mount effect, the language select and generate() actions, *)
(* for any props context, against the route without an API key.            *)
(***************************************************************************)
InitPage ==
    /\ windowAi \in WindowAis
    /\ env \in Envs /\ ~Truthy(env.GEMINI_API_KEY)
    /\ context \in Contexts
    /\ InitState

\* a click is handled only after the mount effect has run (React flushes the
\* effects of the first render before it dispatches a click)
PageClick == probePc # "mount" /\ Click

NextPage ==
    \/ CheckAI
    \/ CheckAIAnswer
    \/ SetLanguage
    \/ PageClick
    \/ CanCreateAnswer
    \/ CreateSessionResult
    \/ PromptResult
    \/ HandlerStart
    \/ ClientReceive
    \/ FetchFails

SpecPage == InitPage /\ [][NextPage]_vars

\* the stored capability status allows the on-device path
StatusUsable == aiStatus \in {"readily", "after-download"}

\* C11: for every capability status other than readily and after-download
\* (no, unavailable, error, unknown) generate() opens no local session and
\* issues exactly one boundary call carrying the mode, language, prior text
\* and context of the action.  (The stored status only ever changes from
\* unknown, so a status outside the two at the end was outside them throughout.)
C11_UnusableStatusGoesRemote ==
    (Completed /\ ~StatusUsable)
        => /\ nSessions = 0
           /\ nBoundary = 1
           /\ sent = [method |-> "POST", mode |-> g.mode, language |-> g.language,
                      advice |-> g.advice, context |-> context]

\* a boundary call of the completed generate() failed: fetch rejected, or the
\* response had a non-success status
BoundaryFailed ==
    /\ nBoundary >= 1
    /\ \/ fetched.kind = "reject"
       \/ fetched.kind = "http" /\ ~Ok(fetched.status)

\* C12: when the boundary call is made and fails (fetch rejects or the status
\* is not a success), generate() settles with the 'unable to generate' text
\* and provider "error", and ends normally (in-flight flag cleared).
C12_BoundaryFailureSettles ==
    /\ (pc = "idle" /\ BoundaryFailed)
         => /\ advice = "Unable to generate advisory (both Built-in AI and fallback failed)."
            /\ provider = "error"
            /\ loading = FALSE
            /\ nBoundary = 1
    /\ (nBoundary >= 1 /\ fetched.kind # "none") => pc = "idle"

C12_Witness ==
    /\ pc = "idle" /\ BoundaryFailed
    /\ fetched.kind = "http" /\ fetched.status = 502
    /\ provider = "error" /\ g.mode = "rewrite"

\* C13: provider "error" with the 'unable to generate' text is stored only
\* when the boundary call itself failed; a failure of the capability query or
\* of the local session alone never produces it.
C13_ErrorOnlyFromBoundary ==
    (Completed /\ provider = "error") => BoundaryFailed

\* Every awaited call of generate() settles: the readiness query, the session
\* creation, the prompt, and the fetch (the route starts, each provider call
\* returns, and the response is delivered).
Fairness ==
    /\ WF_vars(CanCreateAnswer)
    /\ WF_vars(CreateSessionResult)
    /\ WF_vars(PromptResult)
    /\ WF_vars(HandlerStart)
    /\ WF_vars(ProviderRespond)
    /\ WF_vars(ClientReceive)

\* the default model list, with and without a key
InitLive == Init /\ env.GEMINI_MODEL = JsUndefined

SpecLive == InitLive /\ [][Next]_vars /\ Fairness

\* C14: the in-flight flag is true exactly while a generate() is running, and
\* every generate() that starts ends with the flag false, whichever path it
\* takes, when each awaited call settles.
C14_LoadingCleared ==
    /\ [](loading <=> pc # "idle")
    /\ (loading ~> ~loading)

C14_Witness ==
    /\ ~loading /\ pc = "idle"
    /\ provider = "error" /\ nSessions = 1 /\ nPrompts = 1

\* C15: the mount probe always finishes with a status: "unavailable" without
\* a readiness query when window.ai is absent, the query's answer unchanged
\* when it answers, and "error" when the query rejects or throws.
C15_ProbeNeverThrows ==
    /\ probePc \in {"mount", "awaiting", "done"}
    /\ probePc # "done" => aiStatus = JsNull
    /\ probePc = "done" =>
         /\ ~windowAi.present => aiStatus = "unavailable" /\ nCanQueries = 0 /\ probed = JsUndefined
         /\ (windowAi.present /\ ~windowAi.canCreateTextSession) => aiStatus = "error"
         /\ probed \in {"readily", "after-download", "no"} => aiStatus = probed
         /\ probed = "reject" => aiStatus = "error"
         /\ (windowAi.present /\ windowAi.canCreateTextSession) => probed # JsUndefined

C15_Witness ==
    /\ probePc = "done" /\ probed = "reject" /\ aiStatus = "error"
    /\ nCanQueries = 1

KeyMissing == ~Truthy(env.GEMINI_API_KEY)
KeyInvalid == ClientErrorSeen
EndpointUnavailable == ServerErrorSeen \/ lastResp.kind = "reject"

\* C17: a POST answered with the key missing, the key invalid or the endpoint
\* unavailable gets the demo stub with provider exactly "stub".
C17_StubProviderExact ==
    (Answered /\ req.method = "POST" /\ (KeyMissing \/ KeyInvalid \/ EndpointUnavailable))
        => /\ res.status = 200
           /\ res.provider = "stub"

\* C18: every POST is answered once, with status 200 and a non-empty provider,
\* whatever the provider calls did; a non-POST request is answered 405 and
\* no provider call is made for it.
C18_PostAlways200 ==
    /\ srvPc = "awaitProvider" => (res = NoResponse /\ net = "none" /\ req.method = "POST")
    /\ Answered =>
         /\ srvPc = "idle" /\ res.kind = "http"
         /\ req.method = "POST"
              => /\ res.status = 200
                 /\ res.provider # JsUndefined /\ res.provider # JsNull /\ res.provider # ""
                 /\ res.text # JsUndefined
         /\ req.method # "POST"
              => /\ res.status = 405
                 /\ calls = <<>> /\ settled = 0

C18_Witness ==
    /\ Answered /\ req.method = "POST"
    /\ lastResp.kind = "badjson" /\ Len(calls) = 1
    /\ res.status = 200 /\ res.provider = "stub-error"

\* s = instruction \o t for a non-empty instruction
EndsWith(s, t) ==
    /\ Len(s) > Len(t)
    /\ SubSeq(s, Len(s) - Len(t) + 1, Len(s)) = t

\* the request fields as the handler destructures them, and the payload its
\* prompt has to carry
ReqMode == Default(req.mode, "advice")
ReqPayload ==
    IF ReqMode \in {"translate", "rewrite"}
    THEN Default(req.advice, "")
    ELSE Default(req.context, "{}")

RouteFairness ==
    /\ WF_vars(HandlerStart)
    /\ WF_vars(ProviderRespond)

SpecRouteLive == InitRoute /\ [][NextRoute]_vars /\ RouteFairness

DefaultPreferred == env.GEMINI_MODEL \in {JsUndefined, ""}

LocalInFlight    == pc \in {"canCreate", "createSession", "prompt"}
BoundaryInFlight == net # "none" \/ srvPc # "idle"

\* C21: within one generate() the local session call and the boundary call are
\* never both in flight, and the boundary call is started only when the
\* on-device attempt, if there was one, is over.
C21_LocalAndBoundaryExclusive ==
    /\ ~(LocalInFlight /\ BoundaryInFlight)
    /\ LocalInFlight => (nBoundary = 0 /\ sent = NoRequest)
    /\ BoundaryInFlight => (pc = "awaitFetch" /\ nBoundary = 1)
    /\ nBoundary >= 1 => (nSessions = 0 /\ nPrompts = 0 /\ localOut = JsUndefined)

C21_Witness ==
    /\ BoundaryInFlight /\ srvPc = "awaitProvider"
    /\ supportsPromptAPI /\ nGenQueries = 1 /\ can = "no"

\* C22: while the in-flight flag is true all three buttons are disabled, so
\* no action starts while another runs: the running action's arguments and
\* counters are not replaced, and the stored text and provider are written
\* only by the running action when it ends.
C22_OneActionInFlight ==
    /\ [](loading => \A mode \in Modes : Disabled(mode))
    /\ [](loading <=> pc # "idle")
    /\ [][pc # "idle" => (g' = g /\ nSessions' >= nSessions /\ nBoundary' >= nBoundary
                          /\ pc' # "canCreate")]_vars
    /\ [][(advice' # advice \/ provider' # provider) => (pc # "idle" /\ pc' = "idle")]_vars

C22_Witness ==
    /\ loading /\ pc = "awaitFetch" /\ net = "resp"
    /\ g.mode = "translate" /\ Truthy(advice) /\ provider = "on-device (Gemini Nano)"

\* C23: whenever the stored advisory text is empty the Translate and Rewrite
\* buttons are disabled, so a translate or rewrite action always starts from,
\* and sends, a non-empty prior text.
C23_NoRewriteOfNothing ==
    /\ advice = "" => (Disabled("translate") /\ Disabled("rewrite"))
    /\ (pc # "idle" /\ g.mode \in {"translate", "rewrite"}) => (g.advice # "" /\ Truthy(g.advice))
    /\ (nBoundary >= 1 /\ sent.mode \in {"translate", "rewrite"}) => Truthy(sent.advice)

\* an action stored an empty text: only Generate is enabled again
C23_Witness ==
    /\ Completed /\ advice = "" /\ ~loading
    /\ nPrompts = 1 /\ g.mode = "rewrite"
    /\ Disabled("translate") /\ Disabled("rewrite") /\ ~Disabled("advice")

\* the provider call that settled last failed at transport level, or answered
\* a success status with a body that does not parse
TransportOrParseFailure == lastResp.kind \in {"reject", "badjson"}

PredictRequests ==
    [method : {"GET", "POST"}, complete : BOOLEAN, scriptExists : BOOLEAN]

\* what the predictor writes to stdout in one 'data' event
StdoutChunks == {"{\"departure_probability\":0.3}", "{}", "Traceback"}
StderrChunks == {"ModuleNotFoundError"}

\* exit codes as the 'close' listener receives them: a number, null for a
\* child ended by a signal, a negative errno for a child that never started
ExitCodes  == {"0", "1"}
KilledCode == JsNull
SpawnErrno == "-2"

\* res.status(status).json({error, provider, ...}); only the first call of an
\* invocation reaches the client
SendJson(status, error, prov) ==
    /\ nJson' = nJson + 1
    /\ predictRes' = IF nJson = 0
                     THEN [status |-> status, error |-> error, provider |-> prov]
                     ELSE predictRes

\* clearTimeout(killTimer)
ClearKillTimer == killTimer' = IF killTimer = "armed" THEN "cleared" ELSE killTimer

\* JSON.parse(stdout || "{}") and the test of out.departure_probability
ParseOutcome(out) ==
    IF out = "" \/ out = "{}" THEN "malformed"
    ELSE IF out = "{\"departure_probability\":0.3}" THEN "prediction"
    ELSE "syntaxError"

\* the handler runs up to its end: an early return, or spawn, the timer, the
\* listeners and the stdin write.  A spawn that cannot start the program
\* still returns a child, whose 'error' event follows.
PredictRequest ==
    /\ py \in {"none", "closed"}
    /\ \E r \in PredictRequests :
         /\ stdout' = "" /\ stderr' = "" /\ code' = JsUndefined /\ nData' = 0
         /\ IF r.method # "POST"
            THEN /\ nJson' = 1 /\ py' = "none" /\ killTimer' = "none"
                 /\ predictRes' = [status |-> 405, error |-> "Method not allowed", provider |-> JsUndefined]
            ELSE IF ~r.complete
            THEN /\ nJson' = 1 /\ py' = "none" /\ killTimer' = "none"
                 /\ predictRes' = [status |-> 400, error |-> "Missing required fields", provider |-> JsUndefined]
            ELSE IF ~r.scriptExists
            THEN /\ nJson' = 1 /\ py' = "none" /\ killTimer' = "none"
                 /\ predictRes' = [status |-> 503, error |-> "Prediction script not found", provider |-> JsUndefined]
            ELSE /\ nJson' = 0 /\ predictRes' = NoPredictResponse
                 /\ killTimer' = "armed"
                 /\ \E started \in BOOLEAN : py' = IF started THEN "running" ELSE "spawnFailed"
    /\ UNCHANGED <<advisorVars, homeVars>>

\* py.stdout.on("data", ...) and py.stderr.on("data", ...)
PyStdoutData ==
    /\ py \in {"running", "exited"} /\ nData < MaxData
    /\ \E d \in StdoutChunks : stdout' = stdout \o d
    /\ nData' = nData + 1
    /\ UNCHANGED <<advisorVars, homeVars, py, killTimer, stderr, code, nJson, predictRes>>

PyStderrData ==
    /\ py \in {"running", "exited"} /\ nData < MaxData
    /\ \E d \in StderrChunks : stderr' = stderr \o d
    /\ nData' = nData + 1
    /\ UNCHANGED <<advisorVars, homeVars, py, killTimer, stdout, code, nJson, predictRes>>

\* the predictor ends by itself
PyExit ==
    /\ py = "running"
    /\ \E c \in ExitCodes : code' = c
    /\ py' = "exited"
    /\ UNCHANGED <<advisorVars, homeVars, killTimer, stdout, stderr, nData, nJson, predictRes>>

\* the 15 s timer: py.kill("SIGKILL"), which ends a running child and does
\* nothing to one that has ended
KillTimerFires ==
    /\ killTimer = "armed" /\ py \in {"running", "exited"}
    /\ killTimer' = "fired"
    /\ IF py = "running"
       THEN py' = "exited" /\ code' = KilledCode
       ELSE UNCHANGED <<py, code>>
    /\ UNCHANGED <<advisorVars, homeVars, stdout, stderr, nData, nJson, predictRes>>

\* py.on("error", ...): the child could not be started
PyError ==
    /\ py = "spawnFailed"
    /\ ClearKillTimer
    /\ SendJson(503, "Failed to start Python", JsUndefined)
    /\ py' = "errored" /\ code' = SpawnErrno
    /\ UNCHANGED <<advisorVars, homeVars, stdout, stderr, nData>>

\* py.on("close", ...): emitted once the child has ended, or has failed to
\* start, and its stdio streams are closed
PyClose ==
    /\ py \in {"exited", "errored"}
    /\ ClearKillTimer
    /\ IF code # "0"
       THEN SendJson(500, "Prediction failed", JsUndefined)
       ELSE IF ParseOutcome(stdout) = "prediction"
       THEN SendJson(200, JsUndefined, "python-pkl")
       ELSE IF ParseOutcome(stdout) = "malformed"
       THEN SendJson(500, "Malformed output from predictor", JsUndefined)
       ELSE SendJson(500, "Failed to parse predictor output", JsUndefined)
    /\ py' = "closed"
    /\ UNCHANGED <<advisorVars, homeVars, stdout, stderr, code, nData>>

NextPredict ==
    \/ PredictRequest
    \/ PyStdoutData
    \/ PyStderrData
    \/ PyExit
    \/ KillTimerFires
    \/ PyError
    \/ PyClose

\* the route does not depend on the advisor's environment
InitPredict == Init /\ ~windowAi.present /\ ~Truthy(env.GEMINI_API_KEY)

SpecPredict == InitPredict /\ [][NextPredict]_vars

\* C25: for a POST that spawned the predictor, res.json() is called at most
\* once whatever the order of the 'error' and 'close' events and the timer,
\* exactly once when the child is closed, and a child killed by the timer is
\* answered 500 'Prediction failed'.
C25_ExactlyOneResponse ==
    /\ nJson <= 1
    /\ py = "closed" => nJson = 1
    /\ (py = "closed" /\ code = KilledCode)
         => (predictRes.status = 500 /\ predictRes.error = "Prediction failed")

(***************************************************************************)
(* pages/index.js: Home, the weather effects                               *)
(***************************************************************************)
Airports   == {"LAX", "JFK"}
Selections == Airports \cup {""}

\* data.weather of /api/weather?iata=...
Weather(iata) == "wx:" \o iata

\* how a fetch of fetchWeather settles: ok with data.weather, ok without it,
\* or a throw (fetch rejects, the body does not parse, or !res.ok)
WeatherOutcomes(iata) ==
    { [kind |-> "ok",   weather |-> Weather(iata)],
      [kind |-> "ok",   weather |-> JsNull],
      [kind |-> "fail", weather |-> JsNull] }

\* mutant of Current: the callbacks do not test the ignore flag
CurrentAlways(f) == TRUE

\* if (!ignore) ..., for the effect run that started fetch f
Current(f) == ~f.ignore

\* the cleanup of the previous run of the effect of a selection: ignore = true
Cleanup(slot) ==
    [i \in 1..Len(wxFetches) |->
        IF wxFetches[i].slot = slot
        THEN [wxFetches[i] EXCEPT !.ignore = TRUE]
        ELSE wxFetches[i]]

Without(fs, i) == SubSeq(fs, 1, i - 1) \o SubSeq(fs, i + 1, Len(fs))

\* setOrigin(iata) and the run of the origin effect up to its first await on
\* the network: setLoadingOriginWx(true), setWxError(null), and for an empty
\* selection setter(null) and setLoadingOriginWx(false)
SetOrigin ==
    /\ \E iata \in Selections :
         /\ iata # origin
         /\ origin' = iata
         /\ wxError' = JsNull
         /\ IF iata = ""
            THEN /\ wxFetches' = Cleanup("origin")
                 /\ originWx' = JsNull
                 /\ loadingOriginWx' = FALSE
                 /\ wxLatest' = [wxLatest EXCEPT !.origin = NoFetch]
            ELSE /\ Len(wxFetches) < MaxInFlight
                 /\ wxFetches' = Append(Cleanup("origin"),
                                        [slot |-> "origin", iata |-> iata, ignore |-> FALSE])
                 /\ originWx' = originWx
                 /\ loadingOriginWx' = TRUE
                 /\ wxLatest' = [wxLatest EXCEPT !.origin =
                                   [iata |-> iata, state |-> "pending", weather |-> JsNull]]
    /\ UNCHANGED <<advisorVars, predictVars, destination, destWx, loadingDestWx>>

\* setDestination(iata) and the run of the destination effect
SetDestination ==
    /\ \E iata \in Selections :
         /\ iata # destination
         /\ destination' = iata
         /\ wxError' = JsNull
         /\ IF iata = ""
            THEN /\ wxFetches' = Cleanup("destination")
                 /\ destWx' = JsNull
                 /\ loadingDestWx' = FALSE
                 /\ wxLatest' = [wxLatest EXCEPT !.destination = NoFetch]
            ELSE /\ Len(wxFetches) < MaxInFlight
                 /\ wxFetches' = Append(Cleanup("destination"),
                                        [slot |-> "destination", iata |-> iata, ignore |-> FALSE])
                 /\ destWx' = destWx
                 /\ loadingDestWx' = TRUE
                 /\ wxLatest' = [wxLatest EXCEPT !.destination =
                                   [iata |-> iata, state |-> "pending", weather |-> JsNull]]
    /\ UNCHANGED <<advisorVars, predictVars, origin, originWx, loadingOriginWx>>

\* a fetch of fetchWeather settles and the rest of its effect run executes:
\* setter(data.weather || null), or in the catch setWxError(...) and
\* setter(null); then if (!ignore) setLoading...(false)
WeatherSettles ==
    /\ \E i \in 1..Len(wxFetches) :
         LET f == wxFetches[i] IN
         \E o \in WeatherOutcomes(f.iata) :
            /\ wxFetches' = Without(wxFetches, i)
            /\ wxError' = IF o.kind = "fail" THEN "Weather fetch failed" ELSE wxError
            /\ IF f.slot = "origin"
               THEN /\ originWx' = IF Current(f) THEN o.weather ELSE originWx
                    /\ loadingOriginWx' = IF Current(f) THEN FALSE ELSE loadingOriginWx
                    /\ UNCHANGED <<destWx, loadingDestWx>>
               ELSE /\ destWx' = IF Current(f) THEN o.weather ELSE destWx
                    /\ loadingDestWx' = IF Current(f) THEN FALSE ELSE loadingDestWx
                    /\ UNCHANGED <<originWx, loadingOriginWx>>
            /\ wxLatest' = IF f.ignore THEN wxLatest
                           ELSE [wxLatest EXCEPT ![f.slot] =
                                   [iata |-> f.iata,
                                    state |-> IF o.kind = "fail" THEN "failed" ELSE "ok",
                                    weather |-> o.weather]]
    /\ UNCHANGED <<advisorVars, predictVars, origin, destination>>

NextHome ==
    \/ SetOrigin
    \/ SetDestination
    \/ WeatherSettles

InitHome == Init /\ ~windowAi.present /\ ~Truthy(env.GEMINI_API_KEY)

SpecHome == InitHome /\ [][NextHome]_vars

\* the most recently started fetch of a selection has settled
Settled(slot) == wxLatest[slot].state # "pending"

\* C26: the weather state of a selection is written only by the fetch of the
\* current selection (or cleared when the selection is emptied), never by a
\* response for a replaced selection; and when the current fetch has settled
\* the stored weather is its result, for the selected airport, and the
\* loading flag is false.
C26_StaleWeatherIgnored ==
    /\ [](wxLatest.origin.iata = origin /\ wxLatest.destination.iata = destination)
    /\ [](Settled("origin")
            => /\ originWx = wxLatest.origin.weather
               /\ originWx \in {JsNull, Weather(origin)}
               /\ loadingOriginWx = FALSE)
    /\ [](Settled("destination")
            => /\ destWx = wxLatest.destination.weather
               /\ destWx \in {JsNull, Weather(destination)}
               /\ loadingDestWx = FALSE)
    /\ [](~Settled("origin") => loadingOriginWx)
    /\ [](~Settled("destination") => loadingDestWx)
    /\ [][originWx' # originWx
            => \/ origin' = "" /\ origin # ""
               \/ origin' = origin /\ ~Settled("origin") /\ originWx' = wxLatest'.origin.weather]_vars
    /\ [][destWx' # destWx
            => \/ destination' = "" /\ destination # ""
               \/ destination' = destination /\ ~Settled("destination")
                  /\ destWx' = wxLatest'.destination.weather]_vars

\* every fetch has finished, the last one a failed response for a replaced
\* origin: the weather of the selected origin is still stored
C26_Witness ==
    /\ wxFetches = <<>>
    /\ origin = "JFK" /\ originWx = "wx:JFK" /\ ~loadingOriginWx
    /\ destination = "" /\ wxError # JsNull

\* C27: the error banner is non-empty only when the most recently started
\* fetch of the selected origin or of the selected destination has failed.
C27_ErrorOnlyFromCurrent ==
    wxError # JsNull
        => (wxLatest.origin.state = "failed" \/ wxLatest.destination.state = "failed")

====
